---- MODULE Spec2Model ----
\* Tile streaming and cache subsystem of RustOpenGLMap:
\*   tile.rs           TilePos pyramid arithmetic (zoom_in, zoom_out, get_crop)
\*   viewport.rs       Viewport pan / zoom state
\*   opengl_helper.rs  fetch_tile (disk + ancestor search), fetch_tile_from_server
\*   main.rs           worker pool, network thread, render loop and the two LRUs
\*
\* Specifications:
\*   SpecTile      zoom_in / zoom_out applied to sampled addresses
\*   SpecCrop      get_crop applied to the descendants of sampled ancestors
\*   SpecCropDeep  get_crop applied to sampled descendants at every depth
\*   SpecViewport  pan / zoom_in / zoom_out applied to the viewport
\*   SpecFetch     one call of fetch_tile, one loop iteration per step
\*   SpecFetchIO   SpecFetch on disks that also hold files that cannot be opened
\*   SpecStore     fetch_tile_from_server and exact loads on the disk store alone
\*   SpecVisible   one call of draw_visible_tiles on sampled viewports and windows
\*   Spec          the threads of main() running together
\*   SpecBurst     Spec followed through one more request, one address per frame
\*   SpecNet       the network fetch thread under any sequence of requests
EXTENDS Integers, Sequences, FiniteSets, TLC

VARIABLES
    \* ---- TilePos harness (SpecTile, SpecCrop)
    pos,         \* the TilePos the operations act on
    posHist,     \* the operations applied to pos: <<[op, before]>>, newest last
    probe,       \* SpecCrop: the depth and pixel being inspected, or NoProbe;
                 \* SpecCropDeep: the depth of the descendant and, in px / py,
                 \* its column / row offset inside the ancestor
    \* ---- Viewport harness (SpecViewport)
    vp,          \* the Viewport struct, centre in fixed point
    vpHist,      \* the commands applied to vp: <<[op, before]>>, newest last
    \* ---- single fetch_tile call (SpecFetch)
    call,        \* locals of the running fetch_tile call and its position
    callDisk0,   \* the disk as it was when the call started
    callSeen,    \* the candidate addresses examined so far, in order
    \* ---- shared by SpecFetch and Spec
    disk,        \* the Tiles/ directory: path -> "absent" | "good" | "corrupt"
    \* ---- the threads of main() (Spec)
    job_q,       \* job_tx -> job_rx channel (render thread to workers)
    res_q,       \* res_tx -> res_rx channel (workers / network thread to render)
    server_q,    \* server_tx -> server_rx channel (workers to network thread)
    job_lock,    \* the set holding the worker that owns the Mutex around job_rx
    tile_cache_buf, \* in-flight LRU TilePos -> u8, most recently used first
    wpc,         \* per worker: position in the loop body
    wtile,       \* per worker: tile_pos received
    wcall,       \* per worker: locals of its fetch_tile call
    wbranch,     \* per worker: "none" or "some", the arm of the lookup match
    buffer,      \* network thread: VecDeque of pending addresses
    tile_cache,  \* texture LRU TilePos -> GLuint, most recently used first
    nextTex,     \* next texture name glGenTextures hands out
    \* ---- observers of Spec (written by the actions, read by no guard)
    submits,     \* number of job_tx.send so far
    enqSeq,      \* number of server_tx.send so far
    fetchCalls,  \* per address: calls of fetch_tile_from_server
    hist,        \* record of sets / sequences logging what happened
    \* ---- the disk store on its own (SpecStore, with disk)
    store_writer, \* path -> the address whose fetch wrote the file, or NoTile
    store_hist,  \* record logging the writes and the loads
    \* ---- one draw_visible_tiles call (SpecVisible, with vp)
    frame        \* the window, the imagery source and the addresses visited

tileVars == <<pos, posHist, probe>>
vpVars   == <<vp, vpHist>>
callVars == <<call, callDisk0, callSeen>>
storeVars == <<store_writer, store_hist>>
drawVars == <<frame>>
pipeVars == <<job_q, res_q, server_q, job_lock, tile_cache_buf, wpc, wtile, wcall,
              wbranch, buffer, tile_cache, nextTex, submits, enqSeq, fetchCalls,
              hist>>
vars == <<pos, posHist, probe, vp, vpHist, call, callDisk0, callSeen, disk,
          job_q, res_q, server_q, job_lock, tile_cache_buf, wpc, wtile, wcall,
          wbranch, buffer, tile_cache, nextTex, submits, enqSeq, fetchCalls,
          hist, store_writer, store_hist, frame>>

-----------------------------------------------------------------------------
\* Program constants

\* tile.rs:1  const MAX_ZOOM: u8 = 19
MAX_ZOOM == 19
\* tile.rs:110  clamp(0, 8): the deepest crop get_crop computes
CROP_MAX_DEPTH == 8
\* tile.rs:112  the tile edge in pixels
TILE_EDGE == 256

RECURSIVE Pow2(_)
Pow2(n) == IF n = 0 THEN 1 ELSE 2 * Pow2(n - 1)

Min(a, b) == IF a <= b THEN a ELSE b

-----------------------------------------------------------------------------
\* tile.rs: TilePos

TilePos(z, x, y, m) == [z |-> z, x |-> x, y |-> y, m |-> m]

\* A valid address: zoom in [0, MAX_ZOOM], column and row below 2^zoom.
ValidPos(p) ==
    /\ p.z \in 0..MAX_ZOOM
    /\ p.x \in 0..(Pow2(p.z) - 1)
    /\ p.y \in 0..(Pow2(p.z) - 1)

\* u and v are given in quarters: k stands for k/4, so u >= 0.5 is k >= 2.
UVQuarters == 0..3

\* zoom_in without the test against MAX_ZOOM
zoom_in_past_max(p, u, v) ==
    [p EXCEPT !.x = p.x * 2 + (IF u >= 2 THEN 1 ELSE 0),
              !.y = p.y * 2 + (IF v >= 2 THEN 1 ELSE 0),
              !.z = p.z + 1]

\* TilePos::zoom_in(u, v)
zoom_in(p, u, v) ==
    IF p.z >= MAX_ZOOM THEN p
    ELSE [p EXCEPT !.x = p.x * 2 + (IF u >= 2 THEN 1 ELSE 0),
                   !.y = p.y * 2 + (IF v >= 2 THEN 1 ELSE 0),
                   !.z = p.z + 1]

\* zoom_out that halves the column only
zoom_out_keeps_row(p) ==
    IF p.z <= 0 THEN p
    ELSE [p EXCEPT !.x = p.x \div 2, !.z = p.z - 1]

\* TilePos::zoom_out()
zoom_out(p) ==
    IF p.z <= 0 THEN p
    ELSE [p EXCEPT !.x = p.x \div 2, !.y = p.y \div 2, !.z = p.z - 1]

\* clamp of an i32 into [lo, hi]
Clamp(v, lo, hi) == IF v < lo THEN lo ELSE IF v > hi THEN hi ELSE v

\* get_crop that takes the row offset from the column
get_crop_row_from_column(self, child) ==
    LET dz == Clamp(child.z - self.z, 0, CROP_MAX_DEPTH)
        p  == Pow2(dz)
        s  == TILE_EDGE \div p
    IN  <<(child.x % p) * s, (child.x % p) * s, s, s>>

\* TilePos::get_crop(&child) -> (x, y, width, height)
get_crop(self, child) ==
    LET dz == Clamp(child.z - self.z, 0, CROP_MAX_DEPTH)
        p  == Pow2(dz)
        s  == TILE_EDGE \div p
    IN  <<(child.x % p) * s, (child.y % p) * s, s, s>>

\* The ancestor of p reached by n zoom_out calls.
RECURSIVE Ancestor(_, _)
Ancestor(p, n) == IF n = 0 THEN p ELSE Ancestor(zoom_out(p), n - 1)

-----------------------------------------------------------------------------
\* viewport.rs: Viewport.  center_x / center_y are f64; every value the commands
\* below produce is a dyadic rational, which f64 holds exactly, so the centre is
\* kept in fixed point: the integer n stands for n / VpScale.

\* Number of commands applied to one viewport.
VpMaxOps == 3

\* Fixed-point denominator: quarters, halved at most VpMaxOps times.
VpScale == 4 * Pow2(VpMaxOps)

\* The f64 literal q/4 in fixed point.
Quarters(q) == q * (VpScale \div 4)

\* Viewport::pan(dx, dy)
pan(v, dx, dy) ==
    [v EXCEPT !.center_x = v.center_x + dx,
              !.center_y = v.center_y + dy,
              !.rm_x = 0,
              !.rm_y = 0]

\* zoom_in without the test of the zoom level
vp_zoom_in_unclamped(v) ==
    pan([v EXCEPT !.center_x = v.center_x * 2,
                  !.center_y = v.center_y * 2,
                  !.z = v.z + 1],
        Quarters(2), Quarters(2))

\* Viewport::zoom_in()
vp_zoom_in(v) ==
    IF v.z < 19
    THEN pan([v EXCEPT !.center_x = v.center_x * 2,
                       !.center_y = v.center_y * 2,
                       !.z = v.z + 1],
             Quarters(2), Quarters(2))
    ELSE v

\* Viewport::zoom_out()
vp_zoom_out(v) ==
    IF v.z > 0
    THEN pan([v EXCEPT !.center_x = v.center_x \div 2,
                       !.center_y = v.center_y \div 2,
                       !.z = v.z - 1],
             -Quarters(2), -Quarters(2))
    ELSE v

\* Viewport::center_on_pixel(win_w, win_h, px, py): pans by the offset of the
\* pixel from the window centre, (px - win_w / 2) / win_w * win_w / 256 tiles.
\* The fixed-point value is exact for the windows and pixels sampled below
\* (window edge a power of two, offsets a multiple of 64 pixels).
center_on_pixel(v, win_w, win_h, px, py) ==
    pan(v, ((2 * px - win_w) * VpScale) \div (2 * TILE_EDGE),
           ((2 * py - win_h) * VpScale) \div (2 * TILE_EDGE))

\* Viewport::zoom_in_at_pixel(win_w, win_h, px, py)
zoom_in_at_pixel(v, win_w, win_h, px, py) ==
    vp_zoom_in(center_on_pixel(v, win_w, win_h, px, py))

-----------------------------------------------------------------------------
\* Values of the variables a specification does not use.

NoProbe  == [d |-> -1, px |-> -1, py |-> -1]
NoTile   == TilePos(-1, 0, 0, 0)
NoCall   == [pc |-> "none"]
\* main.rs:176  for _ in 0..4 : the worker pool, scaled down
NumWorkers == 2
Workers == 1..NumWorkers

TileIdle == pos = NoTile /\ posHist = <<>> /\ probe = NoProbe
VpIdle   == vp = [z |-> 0, center_x |-> 0, center_y |-> 0, rm_x |-> 0, rm_y |-> 0]
            /\ vpHist = <<>>
CallIdle == call = NoCall /\ callDisk0 = <<>> /\ callSeen = <<>>
StoreIdle == store_writer = <<>> /\ store_hist = <<>>
NoFrame  == [win_w |-> 0, win_h |-> 0, map |-> 0, visited |-> <<>>, drawn |-> FALSE]
DrawIdle == frame = NoFrame
PipeIdle ==
    /\ job_q = <<>> /\ res_q = <<>> /\ server_q = <<>>
    /\ job_lock = {}
    /\ tile_cache_buf = <<>>
    /\ wpc = [w \in Workers |-> "idle"]
    /\ wtile = [w \in Workers |-> NoTile]
    /\ wcall = [w \in Workers |-> NoCall]
    /\ wbranch = [w \in Workers |-> "none"]
    /\ buffer = <<>>
    /\ tile_cache = <<>> /\ nextTex = 1
    /\ submits = 0 /\ enqSeq = 0
    /\ fetchCalls = <<>>
    /\ hist = <<>>

-----------------------------------------------------------------------------
\* SpecTile: zoom_in and zoom_out applied to sampled valid addresses.

\* Number of operations applied to one address.
TileMaxOps == 3

ZoomSamples == {0, 1, 2, MAX_ZOOM - 1, MAX_ZOOM}
EdgeSamples(z) == {0, 1, Pow2(z) - 1} \cap (0..(Pow2(z) - 1))
TileSamples ==
    UNION {{TilePos(z, x, y, m) : x \in EdgeSamples(z), y \in EdgeSamples(z), m \in {0, 1}}
           : z \in ZoomSamples}

TileInit ==
    /\ pos \in TileSamples
    /\ posHist = <<>>
    /\ probe = NoProbe
    /\ VpIdle /\ CallIdle /\ PipeIdle /\ StoreIdle /\ DrawIdle /\ disk = <<>>

TileZoomIn ==
    /\ Len(posHist) < TileMaxOps
    /\ \E u \in UVQuarters, v \in UVQuarters :
         /\ pos' = zoom_in(pos, u, v)
         /\ posHist' = Append(posHist, [op |-> "zoom_in", before |-> pos])
    /\ UNCHANGED <<probe, vpVars, callVars, disk, pipeVars, storeVars, drawVars>>

TileZoomOut ==
    /\ Len(posHist) < TileMaxOps
    /\ pos' = zoom_out(pos)
    /\ posHist' = Append(posHist, [op |-> "zoom_out", before |-> pos])
    /\ UNCHANGED <<probe, vpVars, callVars, disk, pipeVars, storeVars, drawVars>>

TileNext == TileZoomIn \/ TileZoomOut

SpecTile == TileInit /\ [][TileNext]_vars

\* The last two operations were op1 then op2.
LastTwoOps(h, op1, op2) ==
    /\ Len(h) >= 2
    /\ h[Len(h) - 1].op = op1
    /\ h[Len(h)].op = op2

\* C8 -- pyramid round trip: whenever zoom_in(u, v) was applied to a valid
\* address A with A.z < MAX_ZOOM and zoom_out was applied next, the address is
\* A again (zoom, column, row and source all equal).
C8_RoundTrip ==
    (/\ LastTwoOps(posHist, "zoom_in", "zoom_out")
     /\ ValidPos(posHist[Len(posHist) - 1].before)
     /\ posHist[Len(posHist) - 1].before.z < MAX_ZOOM)
    => pos = posHist[Len(posHist) - 1].before

\* C8 witness: a round trip from an odd column at zoom MAX_ZOOM - 1 happened.
C8_Witness ==
    /\ LastTwoOps(posHist, "zoom_in", "zoom_out")
    /\ posHist[Len(posHist) - 1].before.z = MAX_ZOOM - 1
    /\ posHist[Len(posHist) - 1].before.x = Pow2(MAX_ZOOM - 1) - 1
    /\ posHist[Len(posHist)].before.y = 1
    /\ pos = posHist[Len(posHist) - 1].before

\* The address after the i-th operation of the history.
PosAfter(i) == IF i < Len(posHist) THEN posHist[i + 1].before ELSE pos

\* C28 -- the address invariant is preserved: starting from a valid address,
\* after every zoom_in(u, v) and zoom_out the address is valid (zoom in
\* [0, 19], column and row below 2^zoom) and has the source it started with;
\* zoom_in at zoom 19 and zoom_out at zoom 0 returned the address unchanged.
C28_AddressInvariant ==
    /\ ValidPos(pos)
    /\ \A i \in 1..Len(posHist) :
         /\ ValidPos(posHist[i].before)
         /\ PosAfter(i).m = posHist[1].before.m
         /\ (posHist[i].op = "zoom_in" /\ posHist[i].before.z = MAX_ZOOM)
              => PosAfter(i) = posHist[i].before
         /\ (posHist[i].op = "zoom_out" /\ posHist[i].before.z = 0)
              => PosAfter(i) = posHist[i].before

\* C28 witness: from the last column of zoom 18 of source 1, zoom_in reached the
\* last column of zoom 19, a second zoom_in changed nothing and zoom_out went
\* back.
C28_Witness ==
    /\ Len(posHist) = 3
    /\ posHist[1].op = "zoom_in"
    /\ posHist[1].before = TilePos(MAX_ZOOM - 1, Pow2(MAX_ZOOM - 1) - 1, 0, 1)
    /\ posHist[2].op = "zoom_in"
    /\ posHist[2].before = TilePos(MAX_ZOOM, Pow2(MAX_ZOOM) - 1, 1, 1)
    /\ posHist[3].op = "zoom_out"
    /\ posHist[3].before = posHist[2].before
    /\ pos = posHist[1].before

-----------------------------------------------------------------------------
\* SpecCrop: get_crop of a fixed ancestor applied to all its descendants at a
\* chosen depth, inspected at a chosen pixel.

CropAncestors == {TilePos(0, 0, 0, 0), TilePos(11, 1027, 5, 1)}
PixelSamples == {0, 128, 255}

\* The 2^(2d) descendants of ancestor a at depth d.
Descendants(a, d) ==
    {TilePos(a.z + d, a.x * Pow2(d) + c, a.y * Pow2(d) + r, a.m) :
        c \in 0..(Pow2(d) - 1), r \in 0..(Pow2(d) - 1)}

\* Pixel (px, py) lies in rectangle rect = <<x, y, width, height>>.
Covers(rect, px, py) ==
    /\ rect[1] <= px /\ px < rect[1] + rect[3]
    /\ rect[2] <= py /\ py < rect[2] + rect[4]

CropInit ==
    /\ pos \in CropAncestors
    /\ posHist = <<>>
    /\ probe = NoProbe
    /\ VpIdle /\ CallIdle /\ PipeIdle /\ StoreIdle /\ DrawIdle /\ disk = <<>>

CropProbe ==
    /\ \E d \in 0..CROP_MAX_DEPTH, px \in PixelSamples, py \in PixelSamples :
         /\ pos.z + d <= MAX_ZOOM
         /\ probe' = [d |-> d, px |-> px, py |-> py]
    /\ UNCHANGED <<pos, posHist, vpVars, callVars, disk, pipeVars, storeVars, drawVars>>

CropNext == CropProbe

SpecCrop == CropInit /\ [][CropNext]_vars

\* C9 -- crop partition: for the ancestor and depth d in 0..8 under inspection,
\* get_crop gives each of the 2^(2d) descendants a square of edge 256/2^d that
\* lies in the 256x256 image on the grid of that edge, no two descendants get
\* the same square, and the inspected pixel lies in exactly one of them.
C9_CropPartition ==
    probe # NoProbe =>
        LET D == Descendants(pos, probe.d)
            s == TILE_EDGE \div Pow2(probe.d)
        IN  /\ Cardinality(D) = Pow2(2 * probe.d)
            /\ s * Pow2(probe.d) = TILE_EDGE
            /\ \A c \in D :
                 LET r == get_crop(pos, c)
                 IN  /\ r[3] = s /\ r[4] = s
                     /\ r[1] >= 0 /\ r[1] + s <= TILE_EDGE /\ r[1] % s = 0
                     /\ r[2] >= 0 /\ r[2] + s <= TILE_EDGE /\ r[2] % s = 0
            /\ Cardinality({get_crop(pos, c) : c \in D}) = Cardinality(D)
            /\ Cardinality({c \in D : Covers(get_crop(pos, c), probe.px, probe.py)}) = 1

\* C9 witness: depth 8 below the zoom-11 ancestor was inspected at pixel (255, 128).
C9_Witness ==
    /\ pos = TilePos(11, 1027, 5, 1)
    /\ probe = [d |-> CROP_MAX_DEPTH, px |-> 255, py |-> 128]
    /\ get_crop(pos, TilePos(19, 1027 * 256 + 255, 5 * 256 + 128, 1)) = <<255, 128, 1, 1>>

-----------------------------------------------------------------------------
\* SpecCropDeep: get_crop of a fixed ancestor applied to sampled descendants
\* at every depth down to MAX_ZOOM, as fetch_tile calls it
\* (opengl_helper.rs:379) when the nearest decodable file is that far up.

\* Column / row offsets of a descendant inside its ancestor at depth d.
OffsetSamples(d) == {0, 1, 300, Pow2(d) \div 2, Pow2(d) - 1} \cap (0..(Pow2(d) - 1))

DeepInit ==
    /\ pos \in CropAncestors
    /\ posHist = <<>>
    /\ probe = NoProbe
    /\ VpIdle /\ CallIdle /\ PipeIdle /\ StoreIdle /\ DrawIdle /\ disk = <<>>

\* opengl_helper.rs:379  loaded_tile.get_crop(&tile) for the descendant at
\* depth d with column offset cx and row offset cy
DeepProbe ==
    /\ \E d \in 0..MAX_ZOOM :
         /\ pos.z + d <= MAX_ZOOM
         /\ \E cx \in OffsetSamples(d), cy \in OffsetSamples(d) :
              probe' = [d |-> d, px |-> cx, py |-> cy]
    /\ UNCHANGED <<pos, posHist, vpVars, callVars, disk, pipeVars, storeVars, drawVars>>

DeepNext == DeepProbe

SpecCropDeep == DeepInit /\ [][DeepNext]_vars

\* The descendant of a at depth d with these column and row offsets.
DescendantAt(a, d, cx, cy) ==
    TilePos(a.z + d, a.x * Pow2(d) + cx, a.y * Pow2(d) + cy, a.m)

\* C29 -- the crop corresponds to the footprint at every depth: for the
\* ancestor Z and the descendant D under inspection, at any depth in 0..19, the
\* rectangle Z.get_crop(D) lies inside the 256x256 image, is at least 1x1 and
\* contains the pixel at D's position inside Z,
\* x = floor((D.column mod 2^depth) * 256 / 2^depth) and y likewise.
C29_CropFootprint ==
    probe # NoProbe =>
        LET D == DescendantAt(pos, probe.d, probe.px, probe.py)
            r == get_crop(pos, D)
            x == ((D.x % Pow2(probe.d)) * TILE_EDGE) \div Pow2(probe.d)
            y == ((D.y % Pow2(probe.d)) * TILE_EDGE) \div Pow2(probe.d)
        IN  /\ r[1] >= 0 /\ r[2] >= 0
            /\ r[3] >= 1 /\ r[4] >= 1
            /\ r[1] + r[3] <= TILE_EDGE /\ r[2] + r[4] <= TILE_EDGE
            /\ Covers(r, x, y)

-----------------------------------------------------------------------------
\* SpecViewport: the commands of main.rs:307-333 applied to sampled viewports.

VpZoomSamples == {0, 1, MAX_ZOOM - 1, MAX_ZOOM}
VpCentreSamples == {Quarters(4), Quarters(1), Quarters(10)}

VpInit ==
    /\ vp \in [z : VpZoomSamples, center_x : VpCentreSamples,
               center_y : VpCentreSamples, rm_x : {0}, rm_y : {0}]
    /\ vpHist = <<>>
    /\ TileIdle /\ CallIdle /\ PipeIdle /\ StoreIdle /\ DrawIdle /\ disk = <<>>

\* main.rs:307-322  W / S / A / D keys
VpPan ==
    /\ Len(vpHist) < VpMaxOps
    /\ \E d \in {<<0, -1>>, <<0, 1>>, <<-1, 0>>, <<1, 0>>} :
         /\ vp' = pan(vp, Quarters(d[1]), Quarters(d[2]))
         /\ vpHist' = Append(vpHist, [op |-> "pan", before |-> vp])
    /\ UNCHANGED <<tileVars, callVars, disk, pipeVars, storeVars, drawVars>>

\* main.rs:323-326  Up key
VpZoomIn ==
    /\ Len(vpHist) < VpMaxOps
    /\ vp' = vp_zoom_in(vp)
    /\ vpHist' = Append(vpHist, [op |-> "zoom_in", before |-> vp])
    /\ UNCHANGED <<tileVars, callVars, disk, pipeVars, storeVars, drawVars>>

\* main.rs:327-333  Down key
VpZoomOut ==
    /\ Len(vpHist) < VpMaxOps
    /\ vp' = vp_zoom_out(vp)
    /\ vpHist' = Append(vpHist, [op |-> "zoom_out", before |-> vp])
    /\ UNCHANGED <<tileVars, callVars, disk, pipeVars, storeVars, drawVars>>

\* The window and the pixels clicked: the window centre and a point a quarter
\* tile right of and above it.
VpWindow == [w |-> 256, h |-> 256]
VpClicks == {<<128, 128>>, <<192, 64>>}

\* main.rs:368-382  left button, one click
VpCenterOnPixel ==
    /\ Len(vpHist) < VpMaxOps
    /\ \E c \in VpClicks :
         /\ vp' = center_on_pixel(vp, VpWindow.w, VpWindow.h, c[1], c[2])
         /\ vpHist' = Append(vpHist, [op |-> "center_on_pixel", before |-> vp])
    /\ UNCHANGED <<tileVars, callVars, disk, pipeVars, storeVars, drawVars>>

\* main.rs:368-377  left button, double click
VpZoomInAtPixel ==
    /\ Len(vpHist) < VpMaxOps
    /\ \E c \in VpClicks :
         /\ vp' = zoom_in_at_pixel(vp, VpWindow.w, VpWindow.h, c[1], c[2])
         /\ vpHist' = Append(vpHist, [op |-> "zoom_in_at_pixel", before |-> vp])
    /\ UNCHANGED <<tileVars, callVars, disk, pipeVars, storeVars, drawVars>>

VpNext == VpPan \/ VpZoomIn \/ VpZoomOut \/ VpCenterOnPixel \/ VpZoomInAtPixel

SpecViewport == VpInit /\ [][VpNext]_vars

\* C10 -- viewport zoom identity: whenever zoom_in() and then zoom_out() were
\* called, the zoom level, center_x and center_y are what they were before the
\* zoom_in().
C10_ZoomIdentity ==
    LastTwoOps(vpHist, "zoom_in", "zoom_out") =>
        /\ vp.z = vpHist[Len(vpHist) - 1].before.z
        /\ vp.center_x = vpHist[Len(vpHist) - 1].before.center_x
        /\ vp.center_y = vpHist[Len(vpHist) - 1].before.center_y

\* The viewport after the i-th command of the history.
VpAfter(i) == IF i < Len(vpHist) THEN vpHist[i + 1].before ELSE vp

\* C27 -- viewport zoom clamp: after any sequence of pan, zoom_in, zoom_out,
\* center_on_pixel and zoom_in_at_pixel the zoom is in [0, 19]. zoom_in at zoom
\* 19 and zoom_out at zoom 0 left the whole viewport as it was; zoom_in and
\* zoom_in_at_pixel below 19 raised the zoom by exactly 1, zoom_out above 0
\* lowered it by exactly 1, and pan and center_on_pixel kept it.
C27_ZoomClamp ==
    /\ vp.z \in 0..19
    /\ \A i \in 1..Len(vpHist) :
         LET before == vpHist[i].before
             after == VpAfter(i)
             op == vpHist[i].op
         IN  /\ op = "zoom_in" =>
                  IF before.z = 19 THEN after = before ELSE after.z = before.z + 1
             /\ op = "zoom_out" =>
                  IF before.z = 0 THEN after = before ELSE after.z = before.z - 1
             /\ op = "zoom_in_at_pixel" =>
                  after.z = IF before.z = 19 THEN 19 ELSE before.z + 1
             /\ op \in {"pan", "center_on_pixel"} => after.z = before.z

\* C27 witness: zoom_in was called at zoom 19 and changed nothing, zoom_out
\* then gave 18 and a double click gave 19 again.
C27_Witness ==
    /\ Len(vpHist) = 3
    /\ vpHist[1].op = "zoom_in" /\ vpHist[1].before.z = 19
    /\ vpHist[2].op = "zoom_out" /\ vpHist[2].before = vpHist[1].before
    /\ vpHist[3].op = "zoom_in_at_pixel" /\ vpHist[3].before.z = 18
    /\ vp.z = 19
    /\ vp.center_x # 2 * vpHist[3].before.center_x + Quarters(2)

-----------------------------------------------------------------------------
\* opengl_helper.rs: draw_visible_tiles, the addresses it visits

\* ceil(a / b) for b > 0; \div rounds down
CeilDiv(a, b) == -((-a) \div b)

\* f64::floor and f64::ceil of a centre kept in fixed point
FloorFix(c) == c \div VpScale
CeilFix(c) == CeilDiv(c, VpScale)

\* `x as i32` of the f64 n / 2: rounds toward zero and saturates
HalfAsI32(n) ==
    Clamp(IF n >= 0 THEN n \div 2 ELSE -((-n) \div 2), -2147483647 - 1, 2147483647)

\* opengl_helper.rs:506-507  (win as f64 / 256.0).ceil() as i32 + 2
TilesAround(win) == CeilDiv(win, TILE_EDGE) + 2

\* a range test that forgets the upper edge of the pyramid level
InRange_no_upper_edge(tx, ty, z_max) == ~(tx < 0 \/ ty < 0)

\* opengl_helper.rs:520-525  the two `continue` tests, negated
InRange(tx, ty, z_max) == ~(tx < 0 \/ ty < 0) /\ ~(tx > z_max \/ ty > z_max)

\* opengl_helper.rs:513-532  the TilePos built in each iteration that is not
\* skipped, in the order of the two loops (rows outside, columns inside)
draw_visible_tiles(v, win_w, win_h, map) ==
    LET z_max == Pow2(v.z) - 1
        m_y   == HalfAsI32(2 * FloorFix(v.center_y) - TilesAround(win_h))
        ma_y  == HalfAsI32(2 * CeilFix(v.center_y) + TilesAround(win_h))
        m_x   == HalfAsI32(2 * FloorFix(v.center_x) - TilesAround(win_w))
        ma_x  == HalfAsI32(2 * CeilFix(v.center_x) + TilesAround(win_w))
        nx    == IF ma_x >= m_x THEN ma_x - m_x + 1 ELSE 0
        ny    == IF ma_y >= m_y THEN ma_y - m_y + 1 ELSE 0
        cells == [i \in 1..(nx * ny) |->
                    [tx |-> m_x + ((i - 1) % nx), ty |-> m_y + ((i - 1) \div nx)]]
        kept  == SelectSeq(cells, LAMBDA c : InRange(c.tx, c.ty, z_max))
    IN  [visited |-> [i \in 1..Len(kept) |-> TilePos(v.z, kept[i].tx, kept[i].ty, map)],
         candidates |-> nx * ny]

-----------------------------------------------------------------------------
\* SpecVisible: draw_visible_tiles called once on a sampled viewport, window
\* and imagery source.

VisZoomSamples == {0, 1, 2, MAX_ZOOM}

\* Centres left of the map, on its first tiles, on the last tile of zoom 19
\* and right of every level.
VisCentreSamples ==
    {Quarters(-9), Quarters(0), Quarters(3), Quarters(4), Quarters(10),
     Quarters(4 * (Pow2(MAX_ZOOM) - 1) + 2), Quarters(4 * Pow2(MAX_ZOOM) + 40)}

\* Window edges in pixels: the 800x600 window of main.rs:80, and others.
VisWindowSamples == {1, 256, 600, 800, 1080}

\* main.rs:334-367  the imagery sources the keys select
VisMapSamples == {0, 1, 5}

VisInit ==
    /\ vp \in [z : VisZoomSamples, center_x : VisCentreSamples,
               center_y : VisCentreSamples, rm_x : {0}, rm_y : {0}]
    /\ vpHist = <<>>
    /\ frame = NoFrame
    /\ TileIdle /\ CallIdle /\ PipeIdle /\ StoreIdle /\ disk = <<>>

\* main.rs:392-401  the call of draw_visible_tiles in the frame loop
VisDraw ==
    /\ ~frame.drawn
    /\ \E win_w \in VisWindowSamples, win_h \in VisWindowSamples, map \in VisMapSamples :
         frame' = [win_w |-> win_w, win_h |-> win_h, map |-> map,
                   visited |-> draw_visible_tiles(vp, win_w, win_h, map).visited,
                   drawn |-> TRUE]
    /\ UNCHANGED <<tileVars, vpVars, callVars, disk, pipeVars, storeVars>>

VisNext == VisDraw

SpecVisible == VisInit /\ [][VisNext]_vars

\* C26 -- visible addresses are valid: every address a draw_visible_tiles call
\* visits (draws or sends on job_tx) has the viewport's zoom, a column and a row
\* in [0, 2^zoom) and the imagery source passed to the call.
C26_VisibleValid ==
    frame.drawn =>
        \A i \in 1..Len(frame.visited) :
            /\ frame.visited[i].z = vp.z
            /\ frame.visited[i].x \in 0..(Pow2(vp.z) - 1)
            /\ frame.visited[i].y \in 0..(Pow2(vp.z) - 1)
            /\ frame.visited[i].m = frame.map

\* C26 witness: at zoom 19, centred on the last tile of the level, a call for
\* imagery source 5 visited that tile and skipped the candidates beyond the
\* edge.
C26_Witness ==
    /\ frame.drawn /\ frame.map = 5 /\ vp.z = MAX_ZOOM
    /\ \E i \in 1..Len(frame.visited) :
         frame.visited[i] = TilePos(MAX_ZOOM, Pow2(MAX_ZOOM) - 1, Pow2(MAX_ZOOM) - 1, 5)
    /\ Len(frame.visited) > 1
    /\ Len(frame.visited) <
         draw_visible_tiles(vp, frame.win_w, frame.win_h, frame.map).candidates

-----------------------------------------------------------------------------
\* opengl_helper.rs: the disk store and fetch_tile

\* get_file_path: "Tiles/OSMTile_z_x_y.png" for source 0, "Tiles/ESRITile_z_x_y.png"
\* for every other source.
get_file_path(t) == <<IF t.m = 0 THEN "OSMTile" ELSE "ESRITile", t.z, t.x, t.y>>

\* The paths of t and of all its ancestors down to zoom 0.
ChainPaths(t) == {get_file_path(Ancestor(t, n)) : n \in 0..t.z}

\* A decoded image: the file it was read from and the rectangle kept of it.
FullImage(path) == [img |-> path, crop |-> <<0, 0, TILE_EDGE, TILE_EDGE>>]

Failed == [kind |-> "Failed"]

\* TileLoad::Loaded built from the requested tile's own file
ExactOutcome(loaded_tile) ==
    [kind |-> "Loaded",
     texture |-> FullImage(get_file_path(loaded_tile)),
     source_tile |-> loaded_tile]

\* TileLoad::Loading whose crop is asked of the requested tile instead of the ancestor
ApproxOutcome_crop_of_target(loaded_tile, tile) ==
    [kind |-> "Loading",
     texture |-> [img |-> get_file_path(loaded_tile), crop |-> get_crop(tile, loaded_tile)],
     source_tile |-> loaded_tile,
     target_tile |-> tile]

\* TileLoad::Loading built from the file of ancestor loaded_tile, cropped to tile
ApproxOutcome(loaded_tile, tile) ==
    [kind |-> "Loading",
     texture |-> [img |-> get_file_path(loaded_tile), crop |-> get_crop(loaded_tile, tile)],
     source_tile |-> loaded_tile,
     target_tile |-> tile]

\* The locals of fetch_tile(tile) on entry.
FetchTileEnter(tile) ==
    [pc |-> "loop", tile |-> tile, loaded_tile |-> tile, first_load |-> TRUE,
     tile_state |-> Failed]

\* The while condition of fetch_tile.
FetchTileLoops(c) ==
    c.tile_state = Failed /\ (c.first_load \/ c.tile.z > 0)

\* an iteration that leaves a file that failed to decode where it is
FetchTileIter_keeps_corrupt(c, d) ==
    LET path == get_file_path(c.loaded_tile)
        state ==
            IF d[path] = "good"
            THEN IF c.first_load
                 THEN ExactOutcome(c.loaded_tile)
                 ELSE ApproxOutcome(c.loaded_tile, c.tile)
            ELSE c.tile_state
    IN  IF d[path] = "unreadable"
        THEN [call |-> [c EXCEPT !.pc = "panicked"], disk |-> d]
        ELSE [call |-> [c EXCEPT !.tile_state = state,
                                 !.first_load = FALSE,
                                 !.loaded_tile = zoom_out(c.loaded_tile)],
              disk |-> d]

\* One iteration of the while body of fetch_tile on disk d: the locals and the
\* disk after it. A file is "absent", "good" (it decodes), "corrupt" (it opens
\* but does not decode) or "unreadable" (disk.exists() is true and
\* ImageReader::open fails): open(..).unwrap() then panics (opengl_helper.rs:363-364).
FetchTileIter(c, d) ==
    LET path == get_file_path(c.loaded_tile)
        state ==
            IF d[path] = "good"
            THEN IF c.first_load
                 THEN ExactOutcome(c.loaded_tile)
                 ELSE ApproxOutcome(c.loaded_tile, c.tile)
            ELSE c.tile_state
    IN  IF d[path] = "unreadable"
        THEN [call |-> [c EXCEPT !.pc = "panicked"], disk |-> d]
        ELSE [call |-> [c EXCEPT !.tile_state = state,
                                 !.first_load = FALSE,
                                 !.loaded_tile = zoom_out(c.loaded_tile)],
              disk |-> IF d[path] = "corrupt" THEN [d EXCEPT ![path] = "absent"] ELSE d]

-----------------------------------------------------------------------------
\* SpecFetch: one call of fetch_tile on a sampled address and disk.

\* Loop iterations followed in one call; above MAX_ZOOM + 1 so that a search
\* that overruns its bound is seen to.
FetchIterCap == 21

FileStates == {"absent", "good", "corrupt"}

ShallowTiles == {TilePos(5, 3, 7, 0), TilePos(2, 3, 1, 1), TilePos(0, 0, 0, 0)}
DeepTile == TilePos(MAX_ZOOM, 300000, 7, 0)

\* Disks for the deep address: nothing stored, or one ancestor (or itself) stored.
SparseDisks(t) ==
    {[p \in ChainPaths(t) |-> "absent"]}
    \cup {[p \in ChainPaths(t) |-> IF p = q THEN "good" ELSE "absent"] : q \in ChainPaths(t)}

FetchInputs ==
    UNION {{<<t, d>> : d \in [ChainPaths(t) -> FileStates]} : t \in ShallowTiles}
    \cup {<<DeepTile, d>> : d \in SparseDisks(DeepTile)}

FetchInit ==
    /\ \E in \in FetchInputs :
         /\ call = FetchTileEnter(in[1])
         /\ disk = in[2]
         /\ callDisk0 = in[2]
    /\ callSeen = <<>>
    /\ TileIdle /\ VpIdle /\ PipeIdle /\ StoreIdle /\ DrawIdle

\* opengl_helper.rs:353-403  one pass through the loop
FetchIter ==
    /\ call.pc = "loop"
    /\ FetchTileLoops(call)
    /\ Len(callSeen) < FetchIterCap
    /\ call' = FetchTileIter(call, disk).call
    /\ disk' = FetchTileIter(call, disk).disk
    /\ callSeen' = Append(callSeen, call.loaded_tile)
    /\ UNCHANGED <<callDisk0, tileVars, vpVars, pipeVars, storeVars, drawVars>>

\* opengl_helper.rs:404  Ok(tile_state)
FetchReturn ==
    /\ call.pc = "loop"
    /\ ~FetchTileLoops(call)
    /\ call' = [call EXCEPT !.pc = "done"]
    /\ UNCHANGED <<disk, callDisk0, callSeen, tileVars, vpVars, pipeVars, storeVars, drawVars>>

FetchNext == FetchIter \/ FetchReturn

SpecFetch == FetchInit /\ [][FetchNext]_vars

\* SpecFetchIO: SpecFetch started on disks where files may also be unreadable.
FetchIOTiles == {TilePos(2, 3, 1, 1), TilePos(0, 0, 0, 0)}

FetchIOInit ==
    /\ \E t \in FetchIOTiles :
         \E d \in [ChainPaths(t) -> FileStates \cup {"unreadable"}] :
            /\ call = FetchTileEnter(t)
            /\ disk = d
            /\ callDisk0 = d
    /\ callSeen = <<>>
    /\ TileIdle /\ VpIdle /\ PipeIdle /\ StoreIdle /\ DrawIdle

SpecFetchIO == FetchIOInit /\ [][FetchNext]_vars

\* C17: cache-file I/O failure is absorbed, as the specification states it.
\* No call of fetch_tile ends in a panic: a file that cannot be opened is a
\* miss and the call goes on.
C17_OpenFailureAbsorbed == call.pc # "panicked"

\* The numbers n of zoom_out steps after which t's ancestor had a decodable file
\* on disk d.
GoodAncestorSteps(t, d) == {n \in 1..t.z : d[get_file_path(Ancestor(t, n))] = "good"}

SetMin(S) == CHOOSE n \in S : \A k \in S : n <= k

\* C2 -- fallback chain: when fetch_tile(D) returns and, at the call, D's own
\* file was absent and some ancestor's file was present and decodable, the
\* outcome is Loading with target D, source the nearest such ancestor Z (fewest
\* zoom_out steps, same source id) and the image Z's file cropped to
\* Z.get_crop(D); with only the zoom-0 file stored, (z=5, x=3, y=7) gives
\* source (0,0,0) and crop x=24, y=56, size 8.
C2_FallbackChain ==
    (/\ call.pc = "done"
     /\ callDisk0[get_file_path(call.tile)] = "absent"
     /\ GoodAncestorSteps(call.tile, callDisk0) # {})
    => LET D == call.tile
           Z == Ancestor(D, SetMin(GoodAncestorSteps(D, callDisk0)))
           out == call.tile_state
       IN  /\ out.kind = "Loading"
           /\ out.target_tile = D
           /\ out.source_tile = Z
           /\ Z.m = D.m
           /\ out.texture = [img |-> get_file_path(Z), crop |-> get_crop(Z, D)]
           /\ (D = TilePos(5, 3, 7, 0) /\ Z.z = 0)
                => (Z = TilePos(0, 0, 0, 0) /\ out.texture.crop = <<24, 56, 8, 8>>)

\* C2 witness: (5,3,7) was requested with only the zoom-0 file stored and the
\* call returned the cropped zoom-0 image.
C2_Witness ==
    /\ call.pc = "done"
    /\ call.tile = TilePos(5, 3, 7, 0)
    /\ \A p \in DOMAIN callDisk0 : callDisk0[p] = "good" <=> p = get_file_path(TilePos(0, 0, 0, 0))
    /\ \A p \in DOMAIN callDisk0 : callDisk0[p] # "corrupt"
    /\ call.tile_state.kind = "Loading"
    /\ call.tile_state.source_tile = TilePos(0, 0, 0, 0)
    /\ call.tile_state.texture.crop = <<24, 56, 8, 8>>

\* C15: corrupt entries. Every candidate examined so far whose file failed to
\* decode has had its file deleted, and the candidate examined after it is its
\* parent; the outcome, once there is one, is built from a file that decoded,
\* never from a corrupt one.
C15_CorruptHandling ==
    /\ \A i \in 1..Len(callSeen) :
          callDisk0[get_file_path(callSeen[i])] = "corrupt"
              => /\ disk[get_file_path(callSeen[i])] = "absent"
                 /\ i < Len(callSeen) => callSeen[i + 1] = zoom_out(callSeen[i])
    /\ call.tile_state # Failed
          => /\ callDisk0[get_file_path(call.tile_state.source_tile)] = "good"
             /\ call.tile_state.texture.img = get_file_path(call.tile_state.source_tile)

\* C15's case: the call returned an approximation after it had met, and
\* deleted, a corrupt file nearer to the requested tile.
C15_Witness ==
    /\ call.pc = "done"
    /\ call.tile_state.kind = "Loading"
    /\ \E i \in 1..Len(callSeen) :
          /\ callDisk0[get_file_path(callSeen[i])] = "corrupt"
          /\ disk[get_file_path(callSeen[i])] = "absent"
          /\ callSeen[i].z > call.tile_state.source_tile.z

\* C3 -- bounded ancestor search: in every call of fetch_tile, whatever the
\* requested address and the disk, at most MAX_ZOOM + 1 candidate addresses
\* are examined.
C3_BoundedSearch == Len(callSeen) <= MAX_ZOOM + 1

-----------------------------------------------------------------------------
\* lru::LruCache as main.rs uses it: a sequence of [k, v] entries, most recently
\* used first.

LruKeys(c) == [i \in 1..Len(c) |-> c[i].k]
LruHas(c, k) == \E i \in 1..Len(c) : c[i].k = k
LruIndex(c, k) == CHOOSE i \in 1..Len(c) : c[i].k = k
LruValue(c, k) == c[LruIndex(c, k)].v
LruWithout(c, k) == SelectSeq(c, LAMBDA e : e.k # k)

\* a lookup that stores a fresh 0 for the key it finds
LruGet_resets_value(c, k) ==
    IF LruHas(c, k) THEN <<[k |-> k, v |-> 0]>> \o LruWithout(c, k) ELSE c

\* a lookup that takes the entry it finds out of the cache (pop)
LruGet_takes_entry(c, k) == LruWithout(c, k)

\* LruCache::get_key_value: a hit moves the entry to the most-recent end.
LruGet(c, k) ==
    IF LruHas(c, k) THEN <<c[LruIndex(c, k)]>> \o LruWithout(c, k) ELSE c

\* put that makes room by dropping the most recently used entry
LruPut_evicts_newest(c, cap, k, v) ==
    IF LruHas(c, k) THEN <<[k |-> k, v |-> v]>> \o LruWithout(c, k)
    ELSE IF Len(c) >= cap THEN <<[k |-> k, v |-> v]>> \o Tail(c)
    ELSE <<[k |-> k, v |-> v]>> \o c

\* put that never evicts
LruPut_no_evict(c, cap, k, v) == <<[k |-> k, v |-> v]>> \o LruWithout(c, k)

\* LruCache::put: an existing key gets the new value and becomes most recent;
\* a new key at capacity first evicts the least recently used entry.
LruPut(c, cap, k, v) ==
    IF LruHas(c, k) THEN <<[k |-> k, v |-> v]>> \o LruWithout(c, k)
    ELSE IF Len(c) >= cap THEN <<[k |-> k, v |-> v]>> \o SubSeq(c, 1, cap - 1)
    ELSE <<[k |-> k, v |-> v]>> \o c

\* The entries of c that put(k, v) makes leave the cache: k's old entry, or the
\* evicted one.
LruPutLeaves(c, cap, k) ==
    IF LruHas(c, k) THEN {c[LruIndex(c, k)]}
    ELSE IF Len(c) >= cap THEN {c[i] : i \in cap..Len(c)}
    ELSE {}

\* A move-to-front list without capacity: the order of last use.
Touch(order, k) == <<k>> \o SelectSeq(order, LAMBDA e : e # k)

-----------------------------------------------------------------------------
\* opengl_helper.rs: fetch_tile_from_server

\* What the transport and the decoder can answer to one GET.
NetResults == {"ok", "transport_error", "http_error", "too_small", "bad_magic", "undecodable"}

\* a fetch that saves the body of every 200 answer before looking at it
ServerFetch_saves_unchecked(tile, net, d) ==
    IF tile.m \in {0, 1} /\ net = "ok"
    THEN [ok |-> TRUE,
          disk |-> [d EXCEPT ![get_file_path(tile)] = "good"],
          load |-> ExactOutcome(tile)]
    ELSE [ok |-> FALSE,
          disk |-> IF net \in {"too_small", "bad_magic", "undecodable"}
                   THEN [d EXCEPT ![get_file_path(tile)] = "corrupt"]
                   ELSE d,
          load |-> Failed]

\* fetch_tile_from_server(tile) with the network answering net, on disk d:
\* the GET loop runs for sources 0 and 1 only; every answer but a decodable
\* image returns Err; a decoded image is saved and returned as Loaded.
ServerFetch(tile, net, d) ==
    IF tile.m \in {0, 1} /\ net = "ok"
    THEN [ok |-> TRUE,
          disk |-> [d EXCEPT ![get_file_path(tile)] = "good"],
          load |-> ExactOutcome(tile)]
    ELSE [ok |-> FALSE, disk |-> d, load |-> Failed]

-----------------------------------------------------------------------------
\* SpecStore: the disk store under the calls that write and read it, whichever
\* thread makes them: fetch_tile_from_server (network thread, main.rs:278;
\* worker, main.rs:226) and the exact load of fetch_tile (main.rs:199).

\* Calls followed in one run.
StoreMaxOps == 4

\* One geographic tile under the imagery sources the M and keypad keys select,
\* and a second tile of source 1.
StoreTiles == {TilePos(1, 0, 0, m) : m \in 0..2} \cup {TilePos(1, 1, 0, 1)}
StorePaths == {get_file_path(t) : t \in StoreTiles}

StoreInit ==
    /\ disk = [p \in StorePaths |-> "absent"]
    /\ store_writer = [p \in StorePaths |-> NoTile]
    /\ store_hist = [ops |-> 0,
                     writes |-> [p \in StorePaths |-> 0],
                     overwritten |-> {},
                     loaded |-> {}]
    /\ TileIdle /\ VpIdle /\ CallIdle /\ PipeIdle /\ DrawIdle

\* opengl_helper.rs:250-331  fetch_tile_from_server(tile): img_rgba.save(disk)
\* creates the file or replaces the one that is there
StoreFetch ==
    /\ store_hist.ops < StoreMaxOps
    /\ \E tile \in StoreTiles, net \in NetResults :
         LET r == ServerFetch(tile, net, disk)
             path == get_file_path(tile)
         IN  /\ disk' = r.disk
             /\ store_writer' = IF r.ok THEN [store_writer EXCEPT ![path] = tile]
                                         ELSE store_writer
             /\ store_hist' =
                  [store_hist EXCEPT
                     !.ops = @ + 1,
                     !.writes[path] = IF r.ok THEN @ + 1 ELSE @,
                     !.overwritten = IF r.ok /\ disk[path] # "absent"
                                     THEN @ \cup {path} ELSE @]
    /\ UNCHANGED <<tileVars, vpVars, callVars, pipeVars, drawVars>>

\* opengl_helper.rs:354-377  fetch_tile(tile), first pass of the loop: the file
\* at get_file_path(tile) is read and, if it decodes, returned as Loaded
StoreLoad ==
    /\ store_hist.ops < StoreMaxOps
    /\ \E tile \in StoreTiles :
         LET r == FetchTileIter(FetchTileEnter(tile), disk)
             path == get_file_path(tile)
         IN  /\ disk' = r.disk
             /\ store_hist' =
                  [store_hist EXCEPT
                     !.ops = @ + 1,
                     !.loaded = IF r.call.tile_state.kind = "Loaded"
                                THEN @ \cup {[asked |-> r.call.tile_state.source_tile,
                                              writer |-> store_writer[path]]}
                                ELSE @]
    /\ UNCHANGED <<store_writer, tileVars, vpVars, callVars, pipeVars, drawVars>>

StoreNext == StoreFetch \/ StoreLoad

SpecStore == StoreInit /\ [][StoreNext]_vars

\* C14: the disk store is write-once, as the specification states it. No file
\* is written more than once, and no fetch writes a file that already exists.
C14_WriteOnce ==
    /\ \A p \in StorePaths : store_hist.writes[p] <= 1
    /\ store_hist.overwritten = {}

\* C16: disk keys are distinct per address, as the specification states it.
\* Every Loaded outcome fetch_tile builds for an address is read from a file
\* that was written for that address, imagery source included.
C16_StoredForSameSource ==
    \A e \in store_hist.loaded : e.writer = e.asked

-----------------------------------------------------------------------------
\* main.rs: the threads of main()

\* main.rs:167  LruCache::new(128), the texture cache, scaled down
TextureCap == 2
\* main.rs:169  LruCache::new(64), the in-flight table, scaled down
InflightCap == 2
\* main.rs:271  buffer.len() > 64, the network thread's buffer, scaled down
NetBufCap == 3
\* Number of job_tx.send calls followed.
MaxSubmits == 3

Root == TilePos(0, 0, 0, 0)
TileA == TilePos(1, 0, 0, 0)
TileB == TilePos(1, 1, 0, 0)
TileC == TilePos(1, 0, 1, 0)
PipeTiles == {Root, TileA, TileB, TileC}
PipePaths == {get_file_path(t) : t \in PipeTiles}

\* The addresses one draw_visible_tiles call visits, in its row-major order,
\* for the viewports showing zoom 0 or part of zoom 1.
VisibleSets == {<<>>, <<Root>>, <<TileA>>, <<TileA, TileB>>, <<TileC>>}

\* The Tiles/ directory when the program starts.
PipeDisks ==
    {[p \in PipePaths |-> "absent"],
     [p \in PipePaths |-> IF p = get_file_path(Root) THEN "good" ELSE "absent"],
     [p \in PipePaths |-> IF p = get_file_path(Root) THEN "corrupt" ELSE "absent"]}

HistInit ==
    [evicted  |-> {},    \* addresses whose in-flight entry was evicted
     dupSeen  |-> {},    \* <<address, state>> of every request skipped as duplicate
     netLog   |-> <<>>,  \* per fetch of the network thread: what it took, what it left
     enq      |-> {},    \* addresses ever sent on server_tx
     sent     |-> {},    \* [kind, tile] of every outcome ever sent on res_tx
     inline   |-> {},    \* [tile, ok] of every fetch a worker made itself
     useOrder |-> <<>>,  \* texture-cache addresses by last use, newest first
     inserted |-> {},    \* addresses ever put in the texture cache
     left     |-> {},    \* texture names that left the texture cache
     stalledFrame |-> FALSE, \* a frame ran while the workers were stalled
     bufUse   |-> <<>>,  \* in-flight table addresses by last use, newest first
     dropped  |-> {},    \* seq of every request popped off the front of buffer
     puts     |-> {},    \* [key, tex, load, req] of every tile_cache.put, tex in put order
     resTags  |-> <<>>,  \* per outcome pending on res_rx: seq of its server request, or 0
     replaced |-> {},    \* [old, new] texture names of every put on a cached address
     released |-> <<>>]  \* texture names passed to glDeleteTextures, in order

Init ==
    /\ job_q = <<>> /\ res_q = <<>> /\ server_q = <<>>
    /\ job_lock = {}
    /\ tile_cache_buf = <<>>
    /\ wpc = [w \in Workers |-> "idle"]
    /\ wtile = [w \in Workers |-> NoTile]
    /\ wcall = [w \in Workers |-> NoCall]
    /\ wbranch = [w \in Workers |-> "none"]
    /\ buffer = <<>>
    /\ tile_cache = <<>> /\ nextTex = 1
    /\ submits = 0 /\ enqSeq = 0
    /\ fetchCalls = [t \in PipeTiles |-> 0]
    /\ hist = HistInit
    /\ disk \in PipeDisks
    /\ TileIdle /\ VpIdle /\ CallIdle /\ StoreIdle /\ DrawIdle

idleVars == <<tileVars, vpVars, callVars, storeVars, drawVars>>

\* ---- worker pool (main.rs:176-258)

\* lookup that never finds an entry
InflightLookup_never_finds(c, k) == <<>>

\* main.rs:186-192  get_key_value(&tile_pos) cloned out, as an Option: <<state>>
\* for Some, <<>> for None
InflightLookup(c, k) == IF LruHas(c, k) THEN <<LruValue(c, k)>> ELSE <<>>

\* The worker leaves the loop body: the guard on job_rx is dropped.
WorkerEndsBody(w) ==
    /\ wpc' = [wpc EXCEPT ![w] = "idle"]
    /\ wtile' = [wtile EXCEPT ![w] = NoTile]
    /\ wcall' = [wcall EXCEPT ![w] = NoCall]
    /\ wbranch' = [wbranch EXCEPT ![w] = "none"]
    /\ job_lock' = {}

\* main.rs:184  job_rx.lock().unwrap().recv() returns a request; the guard on
\* job_rx lives to the end of the loop body
WRecv(w) ==
    /\ wpc[w] = "idle"
    /\ job_lock = {}
    /\ job_q # <<>>
    /\ job_lock' = {w}
    /\ wtile' = [wtile EXCEPT ![w] = Head(job_q)]
    /\ job_q' = Tail(job_q)
    /\ wpc' = [wpc EXCEPT ![w] = "lookup"]
    /\ UNCHANGED <<res_q, server_q, tile_cache_buf, wcall, wbranch,
                   buffer, tile_cache, nextTex, submits, enqSeq,
                   fetchCalls, hist, disk, idleVars>>

\* main.rs:186-193, 231-254  the lookup and the arm it selects
WLookup(w) ==
    /\ wpc[w] = "lookup"
    /\ LET found == InflightLookup(tile_cache_buf, wtile[w])
       IN  /\ tile_cache_buf' = LruGet(tile_cache_buf, wtile[w])
           /\ IF found = <<>>
              THEN /\ wbranch' = [wbranch EXCEPT ![w] = "none"]
                   /\ wpc' = [wpc EXCEPT ![w] = "put0"]
                   /\ UNCHANGED <<wtile, wcall, job_lock, hist>>
              ELSE IF found[1] = 3
              THEN /\ wbranch' = [wbranch EXCEPT ![w] = "some"]
                   /\ wcall' = [wcall EXCEPT ![w] = FetchTileEnter(wtile[w])]
                   /\ wpc' = [wpc EXCEPT ![w] = "fetch"]
                   /\ hist' = [hist EXCEPT !.bufUse = Touch(@, wtile[w])]
                   /\ UNCHANGED <<wtile, job_lock>>
              ELSE /\ WorkerEndsBody(w)
                   /\ hist' = [hist EXCEPT !.dupSeen = @ \cup {<<wtile[w], found[1]>>},
                                           !.bufUse = Touch(@, wtile[w])]
    /\ UNCHANGED <<job_q, res_q, server_q, buffer,
                   tile_cache, nextTex, submits, enqSeq, fetchCalls, disk, idleVars>>

\* main.rs:197-199  put(tile_pos, 0), then fetch_tile is entered
WPut0(w) ==
    /\ wpc[w] = "put0"
    /\ tile_cache_buf' = LruPut(tile_cache_buf, InflightCap, wtile[w], 0)
    /\ hist' = [hist EXCEPT !.evicted =
                   @ \cup ({e.k : e \in LruPutLeaves(tile_cache_buf, InflightCap, wtile[w])}
                            \ {wtile[w]}),
                            !.bufUse = Touch(@, wtile[w])]
    /\ wcall' = [wcall EXCEPT ![w] = FetchTileEnter(wtile[w])]
    /\ wpc' = [wpc EXCEPT ![w] = "fetch"]
    /\ UNCHANGED <<job_q, res_q, server_q, job_lock, wtile, wbranch, buffer, tile_cache, nextTex, submits, enqSeq, fetchCalls,
                   disk, idleVars>>

\* main.rs:199, 234  fetch_tile: one pass through its loop. A panic inside it
\* ends the worker thread with the job_rx mutex poisoned: no other worker gets
\* past job_rx.lock().unwrap() again, so the guard stays taken.
WFetchIter(w) ==
    /\ wpc[w] = "fetch"
    /\ FetchTileLoops(wcall[w])
    /\ wcall' = [wcall EXCEPT ![w] = FetchTileIter(wcall[w], disk).call]
    /\ disk' = FetchTileIter(wcall[w], disk).disk
    /\ wpc' = IF FetchTileIter(wcall[w], disk).call.pc = "panicked"
              THEN [wpc EXCEPT ![w] = "dead"]
              ELSE wpc
    /\ UNCHANGED <<job_q, res_q, server_q, job_lock, tile_cache_buf, wtile,
                   wbranch, buffer, tile_cache, nextTex, submits,
                   enqSeq, fetchCalls, hist, idleVars>>

\* fetch_tile has returned to worker w with an outcome of this kind.
WFetched(w, kind) ==
    /\ wpc[w] = "fetch"
    /\ ~FetchTileLoops(wcall[w])
    /\ wcall[w].tile_state.kind = kind

Outcome(load) == [kind |-> load.kind, tile |-> load.source_tile]

\* a channel on which the outcome sent last is received first
ResSend_overtakes(q, load) == <<load>> \o q

\* main.rs:206, 217, 280  res_tx.send(load) on the mpsc channel: the outcome
\* joins the pending ones behind those sent before it
ResSend(q, load) == Append(q, load)

\* main.rs:201-210, 236-244  TileLoad::Loaded
WLoaded(w) ==
    /\ WFetched(w, "Loaded")
    /\ tile_cache_buf' = IF wbranch[w] = "none"
                         THEN LruPut(tile_cache_buf, InflightCap, wtile[w], 2)
                         ELSE tile_cache_buf
    /\ res_q' = ResSend(res_q, wcall[w].tile_state)
    /\ hist' = [hist EXCEPT !.sent = @ \cup {Outcome(wcall[w].tile_state)},
                            !.resTags = ResSend(@, 0),
                            !.bufUse = IF wbranch[w] = "none"
                                       THEN Touch(@, wtile[w]) ELSE @]
    /\ WorkerEndsBody(w)
    /\ UNCHANGED <<job_q, server_q, buffer,
                   tile_cache, nextTex, submits, enqSeq, fetchCalls, disk, idleVars>>

\* main.rs:211-221, 245-249  TileLoad::Loading: state 1 and the outcome is sent.
\* The worker keeps the guard on job_rx to the end of the body, so the next
\* send on server_tx is its own: the outcome is tagged with that request's seq.
WLoading(w) ==
    /\ WFetched(w, "Loading")
    /\ IF wbranch[w] = "none"
       THEN /\ tile_cache_buf' = LruPut(tile_cache_buf, InflightCap, wtile[w], 1)
            /\ res_q' = ResSend(res_q, wcall[w].tile_state)
            /\ hist' = [hist EXCEPT !.sent = @ \cup {Outcome(wcall[w].tile_state)},
                                    !.resTags = ResSend(@, enqSeq + 1),
                                    !.bufUse = Touch(@, wtile[w])]
            /\ wpc' = [wpc EXCEPT ![w] = "send_server"]
            /\ UNCHANGED <<job_lock, wtile, wcall, wbranch>>
       ELSE /\ WorkerEndsBody(w)
            /\ UNCHANGED <<tile_cache_buf, res_q, hist>>
    /\ UNCHANGED <<job_q, server_q, buffer,
                   tile_cache, nextTex, submits, enqSeq, fetchCalls, disk, idleVars>>

\* a request for the ancestor the approximation was cut from
ServerRequest_sends_ancestor(load) == load.source_tile

\* main.rs:223  the address sent on server_tx: target_tile of the Loading
\* outcome
ServerRequest(load) == load.target_tile

\* main.rs:223  server_tx.send(target_tile)
WSendServer(w) ==
    /\ wpc[w] = "send_server"
    /\ server_q' = Append(server_q, [tile |-> ServerRequest(wcall[w].tile_state),
                                     seq |-> enqSeq + 1])
    /\ enqSeq' = enqSeq + 1
    /\ hist' = [hist EXCEPT !.enq = @ \cup {ServerRequest(wcall[w].tile_state)}]
    /\ WorkerEndsBody(w)
    /\ UNCHANGED <<job_q, res_q, tile_cache_buf, buffer, tile_cache, nextTex, submits, fetchCalls, disk,
                   idleVars>>

\* main.rs:225-227, 250  TileLoad::Failed: the worker fetches from the server
\* itself and drops the result
WFailed(w) ==
    /\ WFetched(w, "Failed")
    /\ IF wbranch[w] = "none"
       THEN \E net \in NetResults :
              LET r == ServerFetch(wtile[w], net, disk)
              IN  /\ disk' = r.disk
                  /\ fetchCalls' = [fetchCalls EXCEPT ![wtile[w]] = @ + 1]
                  /\ hist' = [hist EXCEPT !.inline =
                                 @ \cup {[tile |-> wtile[w], ok |-> r.ok]}]
       ELSE UNCHANGED <<disk, fetchCalls, hist>>
    /\ WorkerEndsBody(w)
    /\ UNCHANGED <<job_q, res_q, server_q, tile_cache_buf,
                   buffer, tile_cache, nextTex, submits, enqSeq,
                   idleVars>>

\* ---- network fetch thread (main.rs:260-295)

\* the buffer served oldest first
NetTake_oldest_first(buf) == [item |-> Head(buf), rest |-> Tail(buf)]

\* main.rs:277  buffer.pop_back()
NetTake(buf) == [item |-> buf[Len(buf)], rest |-> SubSeq(buf, 1, Len(buf) - 1)]

\* a full buffer that turns the arriving request away
NetPush_refuses_newest(buf, item) ==
    IF Len(buf) >= NetBufCap
    THEN [buf |-> buf, out |-> <<item>>]
    ELSE [buf |-> Append(buf, item), out |-> <<>>]

\* main.rs:270-273  buffer.push_back(tile_pos), then buffer.pop_front() if the
\* length is beyond the capacity; out is what pop_front removed
NetPush(buf, item) ==
    LET pushed == Append(buf, item)
    IN  IF Len(pushed) > NetBufCap
        THEN [buf |-> Tail(pushed), out |-> <<Head(pushed)>>]
        ELSE [buf |-> pushed, out |-> <<>>]

\* main.rs:268-274  Ok(tile_pos): push_back, and pop_front beyond the capacity
NRecv ==
    /\ server_q # <<>>
    /\ buffer' = NetPush(buffer, Head(server_q)).buf
    /\ hist' = [hist EXCEPT !.dropped =
                   @ \cup {NetPush(buffer, Head(server_q)).out[i].seq :
                             i \in 1..Len(NetPush(buffer, Head(server_q)).out)}]
    /\ server_q' = Tail(server_q)
    /\ UNCHANGED <<job_q, res_q, job_lock, tile_cache_buf, wpc, wtile, wcall,
                   wbranch, tile_cache, nextTex, submits, enqSeq,
                   fetchCalls, disk, idleVars>>

\* main.rs:275-286  Err(Empty): the last-in entry is taken and fetched; Ok(load)
\* is sent on res_tx
NFetch ==
    /\ server_q = <<>>
    /\ buffer # <<>>
    /\ buffer' = NetTake(buffer).rest
    /\ fetchCalls' = [fetchCalls EXCEPT ![NetTake(buffer).item.tile] = @ + 1]
    /\ \E net \in NetResults :
         LET r == ServerFetch(NetTake(buffer).item.tile, net, disk)
             log == [seq |-> NetTake(buffer).item.seq,
                     tile |-> NetTake(buffer).item.tile,
                     ok |-> r.ok,
                     pending |-> {NetTake(buffer).rest[i].seq :
                                    i \in 1..Len(NetTake(buffer).rest)}]
         IN  /\ disk' = r.disk
             /\ res_q' = IF r.ok THEN ResSend(res_q, r.load) ELSE res_q
             /\ hist' = [hist EXCEPT
                            !.netLog = Append(@, log),
                            !.resTags = IF r.ok THEN ResSend(@, log.seq) ELSE @,
                            !.sent = IF r.ok THEN @ \cup {Outcome(r.load)} ELSE @]
    /\ UNCHANGED <<job_q, server_q, job_lock, tile_cache_buf, wpc, wtile, wcall,
                   wbranch, tile_cache, nextTex, submits, enqSeq,
                   idleVars>>

\* ---- render thread (main.rs:297-424)

\* The render thread's share of the state while it walks a list.
RenderState ==
    [cache |-> tile_cache, next |-> nextTex, jobs |-> job_q, h |-> hist, done |-> TRUE]

\* opengl_helper.rs:527-556  the visible addresses in order: a hit is drawn
\* (get_key_value), a miss is sent on job_tx
RECURSIVE DrawAll(_, _)
DrawAll(visible, st) ==
    IF visible = <<>> THEN st
    ELSE LET t == Head(visible)
         IN  DrawAll(Tail(visible),
                     IF LruHas(st.cache, t)
                     THEN [st EXCEPT !.cache = LruGet(st.cache, t),
                                     !.h.useOrder = Touch(@, t)]
                     ELSE [st EXCEPT !.jobs = Append(@, t)])

\* every outcome stored under the address its image was read from
CacheKey_always_source(load) == load.source_tile

\* The address an outcome is stored under: source_tile of Loaded, target_tile of
\* Loading (main.rs:410, 418).
CacheKey(load) == IF load.kind = "Loaded" THEN load.source_tile ELSE load.target_tile

\* an upload that hands back name 0 without generating a texture
create_texture_unuploaded(next) == [tex_id |-> 0, next |-> next]

\* opengl_helper.rs:407-449  create_texture_from_bitmap: glGenTextures hands out
\* a name not in use, the bitmap is uploaded under it and the name is returned
create_texture_from_bitmap(next) == [tex_id |-> next, next |-> next + 1]

\* a receive that waits for a sender when nothing is pending (recv)
try_recv_waits(q) ==
    [ready |-> q # <<>>, item |-> IF q = <<>> THEN <<>> ELSE <<Head(q)>>]

\* main.rs:403  res_rx.try_recv(): returns at once, with the first pending
\* outcome (Ok) or with none (Err(Empty))
try_recv(q) ==
    [ready |-> TRUE, item |-> IF q = <<>> THEN <<>> ELSE <<Head(q)>>]

\* main.rs:403-422  while let Ok(tile_load) = res_rx.try_recv(): each outcome
\* is uploaded under a new texture name and put in the texture cache; what put
\* returns is dropped. done says whether the loop was left.
RECURSIVE DrainAll(_, _)
DrainAll(pending, st) ==
    LET r == try_recv(pending)
    IN  IF ~r.ready THEN [st EXCEPT !.done = FALSE]
        ELSE IF r.item = <<>> THEN st
        ELSE LET load == r.item[1]
                 k == CacheKey(load)
                 tex == create_texture_from_bitmap(st.next)
             IN  DrainAll(Tail(pending),
                          [st EXCEPT
                             !.cache = LruPut(st.cache, TextureCap, k, tex.tex_id),
                             !.next = tex.next,
                             !.h.useOrder = Touch(@, k),
                             !.h.inserted = @ \cup {k},
                             !.h.puts = @ \cup {[key |-> k, tex |-> tex.tex_id,
                                                  load |-> load,
                                                  req |-> Head(st.h.resTags)]},
                             !.h.resTags = Tail(@),
                             !.h.replaced =
                                 IF LruHas(st.cache, k)
                                 THEN @ \cup {[old |-> LruValue(st.cache, k),
                                               new |-> tex.tex_id]}
                                 ELSE @,
                             !.h.left = @ \cup {e.v : e \in LruPutLeaves(st.cache, TextureCap, k)}])

\* A worker holds the guard on job_rx inside a fetch_tile call whose search has
\* reached zoom 0 without a decodable file and goes on: no worker takes a job.
WorkersStalled ==
    \E w \in job_lock :
        /\ wpc[w] = "fetch"
        /\ FetchTileLoops(wcall[w])
        /\ ~wcall[w].first_load
        /\ wcall[w].loaded_tile.z = 0
        /\ disk[get_file_path(wcall[w].loaded_tile)] = "absent"

\* main.rs:392-423  one iteration of the frame loop showing these addresses:
\* draw_visible_tiles, then the drain of res_rx. The step needs nothing of the
\* other threads: job_tx.send on the unbounded channel and try_recv return at
\* once and the render thread locks no mutex. FrameReturns says that every
\* call of the step returns without waiting for another thread.
FrameReturns(visible) == DrainAll(res_q, DrawAll(visible, RenderState)).done

\* The step, as long as it keeps the number of job_tx.send calls within budget.
RFrameWithin(visible, budget) ==
    LET drawn == DrawAll(visible, RenderState)
        st == DrainAll(res_q, drawn)
    IN  /\ FrameReturns(visible)
        /\ submits + (Len(drawn.jobs) - Len(job_q)) <= budget
        /\ submits' = submits + (Len(drawn.jobs) - Len(job_q))
        /\ job_q' = drawn.jobs
        /\ tile_cache' = st.cache
        /\ nextTex' = st.next
        /\ hist' = [st.h EXCEPT !.stalledFrame =
                                  @ \/ (WorkersStalled /\ buffer = <<>>
                                        /\ server_q = <<>> /\ res_q = <<>>)]
        /\ res_q' = <<>>
        /\ UNCHANGED <<server_q, job_lock, tile_cache_buf, wpc, wtile, wcall,
                       wbranch, buffer, enqSeq, fetchCalls, disk,
                       idleVars>>

RFrameOn(visible) == RFrameWithin(visible, MaxSubmits)

RFrame == \E visible \in VisibleSets : RFrameOn(visible)

Worker(w) ==
    \/ WRecv(w) \/ WLookup(w) \/ WPut0(w) \/ WFetchIter(w)
    \/ WLoaded(w) \/ WLoading(w) \/ WSendServer(w) \/ WFailed(w)

Next ==
    \/ \E w \in Workers : Worker(w)
    \/ NRecv \/ NFetch
    \/ RFrame

Spec == Init /\ [][Next]_vars

\* ---- SpecBurst: the same threads followed through one more request, with
\* frames that show one address each, so that an address is requested again
\* after its in-flight entry was evicted and the network thread's buffer
\* receives more addresses than it holds.

\* Number of job_tx.send calls followed.
BurstSubmits == 4

BurstVisible == {<<Root>>, <<TileA>>, <<TileB>>}

BurstInit ==
    /\ Init
    /\ disk[get_file_path(Root)] # "corrupt"

BurstFrame == \E visible \in BurstVisible : RFrameWithin(visible, BurstSubmits)

BurstNext ==
    \/ \E w \in Workers : Worker(w)
    \/ NRecv \/ NFetch
    \/ BurstFrame

SpecBurst == BurstInit /\ [][BurstNext]_vars

\* ---- SpecNet: the network fetch thread on its own, fed by the sends on
\* server_tx that the workers make, in any number and order.

\* Number of server_tx.send calls followed.
NetArrivals == 4

\* main.rs:223  server_tx.send(target_tile) by some worker, for a tile below
\* zoom 0 of imagery source 0
NetArrive ==
    /\ enqSeq < NetArrivals
    /\ \E t \in PipeTiles \ {Root} :
         /\ server_q' = Append(server_q, [tile |-> t, seq |-> enqSeq + 1])
         /\ hist' = [hist EXCEPT !.enq = @ \cup {t}]
    /\ enqSeq' = enqSeq + 1
    /\ UNCHANGED <<job_q, res_q, job_lock, tile_cache_buf, wpc, wtile, wcall,
                   wbranch, buffer, tile_cache, nextTex, submits, fetchCalls,
                   disk, idleVars>>

NetNext == NetArrive \/ NRecv \/ NFetch

SpecNet == Init /\ [][NetNext]_vars

\* ---- properties of the pipeline

\* C1: dedup. For every address whose in-flight entry was never evicted, at most
\* one call of fetch_tile_from_server is made, by a worker or by the network
\* thread, however often the address is submitted and whichever worker takes
\* each request; a request found with an entry in state 0 starts nothing.
C1_Dedup ==
    \A a \in PipeTiles : a \notin hist.evicted => fetchCalls[a] <= 1

\* C1's case: a request for an address was dropped because its entry was found
\* in state 0 (Requested), after the one fetch for it had been made.
C1_Witness ==
    \E a \in PipeTiles :
        /\ <<a, 0>> \in hist.dupSeen
        /\ fetchCalls[a] = 1
        /\ a \notin hist.evicted

\* C4: no-ancestor path as the specification states it. Whenever a worker has
\* finished a request for an address with nothing on disk along its chain, the
\* address has been sent on server_tx, and if the fetch from the server
\* succeeded a Loaded (Resolved) outcome for it has been sent on res_tx.
C4_NoAncestorPath ==
    \A e \in hist.inline :
        /\ e.tile \in hist.enq
        /\ e.ok => [kind |-> "Loaded", tile |-> e.tile] \in hist.sent

\* C5: network priority. Whenever the network thread starts a fetch, every
\* address still waiting in its buffer was sent on server_tx before the one it
\* takes: of T1, T2, T3 buffered together, T3 is fetched first, then T2, then T1.
C5_MostRecentFirst ==
    \A i \in 1..Len(hist.netLog) :
        \A s \in hist.netLog[i].pending : s < hist.netLog[i].seq

\* C5's case: three addresses were buffered before any fetch and were then
\* fetched third, second, first.
C5_Witness ==
    /\ Len(hist.netLog) = 3
    /\ hist.netLog[1].seq = 3 /\ hist.netLog[1].pending = {1, 2}
    /\ hist.netLog[2].seq = 2 /\ hist.netLog[2].pending = {1}
    /\ hist.netLog[3].seq = 1 /\ hist.netLog[3].pending = {}

\* C6: texture LRU bound. The texture cache never holds more entries than its
\* capacity; once more distinct addresses than the capacity have been inserted
\* it holds exactly the capacity; and what it holds is always the most recently
\* used addresses, newest first.
C6_LruBound ==
    /\ Len(tile_cache) <= TextureCap
    /\ Cardinality(hist.inserted) > TextureCap => Len(tile_cache) = TextureCap
    /\ LruKeys(tile_cache) =
         SubSeq(hist.useOrder, 1, Min(TextureCap, Len(hist.useOrder)))

\* C6's case: more distinct addresses than the capacity have been inserted and
\* an entry has been evicted.
C6_Witness ==
    /\ Cardinality(hist.inserted) > TextureCap
    /\ Len(tile_cache) = TextureCap
    /\ hist.left # {}

\* C7: handle release as the specification states it. Every texture name that
\* has left the texture cache, evicted or replaced under its address, has been
\* passed to glDeleteTextures exactly once.
C7_ReleasedOnce ==
    \A h \in hist.left :
        Cardinality({i \in DOMAIN hist.released : hist.released[i] = h}) = 1

C12_NoLockDuringIO ==
    \A w \in Workers : wpc[w] = "fetch" => w \notin job_lock

\* The last fetch the network thread made for address a failed.
NetFailed(a) ==
    \E i \in 1..Len(hist.netLog) :
        /\ hist.netLog[i].tile = a
        /\ ~hist.netLog[i].ok
        /\ \A j \in (i + 1)..Len(hist.netLog) : hist.netLog[j].tile # a

\* C13: re-trigger after a network failure, as the specification states it.
\* When a worker has taken a request for an address whose network fetch failed,
\* the in-flight lookup does not suppress it: it finds no entry, or an entry
\* marked expired (3), so the ancestor search and the enqueue happen again.
C13_RetriggerAfterFailure ==
    \A w \in Workers :
        (wpc[w] = "lookup" /\ NetFailed(wtile[w]))
            => InflightLookup(tile_cache_buf, wtile[w]) \in {<<>>, <<3>>}

\* Nothing on its way would put a texture for address a in the texture cache:
\* no outcome for a waits on res_rx, no fetch of a waits with the network
\* thread, and no worker is past the lookup of a request for a.
NothingPendingFor(a) ==
    /\ \A i \in 1..Len(res_q) : CacheKey(res_q[i]) # a
    /\ \A i \in 1..Len(server_q) : server_q[i].tile # a
    /\ \A i \in 1..Len(buffer) : buffer[i].tile # a
    /\ \A w \in Workers : wtile[w] = a => wpc[w] \in {"idle", "lookup", "dead"}

\* Address a cannot be served: its exact file is on disk and decodable, it was
\* resolved earlier and its texture has been evicted, nothing is pending for
\* it, and its in-flight entry, still present in state 2, makes the workers
\* drop every request for it that a miss submits.
Starved(a) ==
    /\ disk[get_file_path(a)] = "good"
    /\ a \in hist.inserted
    /\ ~LruHas(tile_cache, a)
    /\ InflightLookup(tile_cache_buf, a) = <<2>>
    /\ NothingPendingFor(a)

\* C18: visible tiles are eventually served, as the specification states it,
\* put so that a finite run refutes it: no state is reached from which an
\* address that stays visible, with its exact tile decodable on disk, gets no
\* texture however the render loop and the workers are scheduled.
C18_VisibleServed ==
    \A a \in PipeTiles : ~Starved(a)

\* C19: handle validity. Every handle stored in the texture cache is the name
\* of a texture that was uploaded and has not been passed to glDeleteTextures,
\* and no two entries share a handle: every draw of a cache hit binds a live
\* texture.
C19_HandlesLive ==
    /\ \A i \in 1..Len(tile_cache) :
          /\ tile_cache[i].v \in 1..(nextTex - 1)
          /\ \A j \in 1..Len(hist.released) : hist.released[j] # tile_cache[i].v
    /\ \A i, j \in 1..Len(tile_cache) : tile_cache[i].v = tile_cache[j].v => i = j

\* C19's case: a draw hit an entry (the older handle is the more recently
\* used one) after another handle had left the cache.
C19_Witness ==
    /\ Len(tile_cache) >= 2
    /\ tile_cache[1].v < tile_cache[2].v
    /\ hist.left # {}

\* C20: duplicate suppression leaves the state unchanged. The step a worker
\* takes from the lookup when the entry it found is in state 0 (Requested) or
\* 1 (ApproximationSent) ends the loop body and sends nothing on res_tx,
\* enqueues nothing on server_tx, touches neither the disk nor the network, and
\* leaves the state stored for every address in the in-flight table as it was.
C20_DuplicateLeavesState ==
    [][\A w \in Workers :
          (/\ wpc[w] = "lookup"
           /\ wpc'[w] # "lookup"
           /\ InflightLookup(tile_cache_buf, wtile[w]) \in {<<0>>, <<1>>})
          => /\ wpc'[w] = "idle"
             /\ res_q' = res_q /\ server_q' = server_q /\ buffer' = buffer
             /\ disk' = disk /\ fetchCalls' = fetchCalls
             /\ \A a \in PipeTiles :
                   InflightLookup(tile_cache_buf', a) = InflightLookup(tile_cache_buf, a)]_vars

\* C20's case: a request was dropped because its entry was found in state 1
\* (ApproximationSent).
C20_Witness ==
    \E a \in PipeTiles : <<a, 1>> \in hist.dupSeen

\* What worker w sends on res_tx in this step, as a sequence of at most one
\* outcome.
WorkerEmits(w) ==
    IF wpc[w] = "fetch" /\ wpc'[w] # "fetch" /\ Len(res_q') = Len(res_q) + 1
    THEN <<res_q'[Len(res_q')]>>
    ELSE <<>>

\* C21: approximate bookkeeping. In every step in which a worker sends a
\* Loading outcome for the address D it received, the outcome's target is D,
\* D's in-flight state becomes 1 and the worker's next statement is the send on
\* server_tx; that send appends exactly D, once, and nothing else ever appends
\* to server_tx. In every step in which a worker sends a Loaded outcome, its
\* source is D, D's in-flight state becomes 2 and nothing is appended to
\* server_tx.
C21_ApproxBookkeeping ==
    [][/\ \A w \in Workers :
            /\ \A load \in {WorkerEmits(w)[i] : i \in 1..Len(WorkerEmits(w))} :
                 /\ server_q' = server_q
                 /\ LruHas(tile_cache_buf', wtile[w])
                 /\ IF load.kind = "Loading"
                    THEN /\ load.target_tile = wtile[w]
                         /\ load.source_tile # wtile[w]
                         /\ LruValue(tile_cache_buf', wtile[w]) = 1
                         /\ wpc'[w] = "send_server"
                    ELSE /\ load.kind = "Loaded"
                         /\ load.source_tile = wtile[w]
                         /\ LruValue(tile_cache_buf', wtile[w]) = 2
                         /\ wpc'[w] = "idle"
            /\ (wpc[w] = "send_server" /\ wpc'[w] # "send_server")
                 => /\ Len(server_q') = Len(server_q) + 1
                    /\ SubSeq(server_q', 1, Len(server_q)) = server_q
                    /\ server_q'[Len(server_q')].tile = wtile[w]
                    /\ LruHas(tile_cache_buf', wtile[w])
                    /\ LruValue(tile_cache_buf', wtile[w]) = 1
       /\ Len(server_q') > Len(server_q)
            => \E w \in Workers : wpc[w] = "send_server" /\ wpc'[w] = "idle"
      ]_vars

\* C21 witness: one address was answered from its own file and is in state 2,
\* another was answered by a crop of an ancestor, is in state 1 and was sent on
\* server_tx.
C21_Witness ==
    \E a \in hist.enq, b \in PipeTiles :
        /\ LruHas(tile_cache_buf, a) /\ LruValue(tile_cache_buf, a) = 1
        /\ LruHas(tile_cache_buf, b) /\ LruValue(tile_cache_buf, b) = 2
        /\ [kind |-> "Loading", tile |-> zoom_out(a)] \in hist.sent
        /\ [kind |-> "Loaded", tile |-> b] \in hist.sent

\* The tile_cache.put calls made for address a with an outcome of this kind.
PutsOf(a, kind) == {p \in hist.puts : p.key = a /\ p.load.kind = kind}

\* C22: an approximation is superseded by the exact image. Every put of a
\* Loading outcome is made under its target_tile with a cropped image of an
\* ancestor, every put of a Loaded outcome under its source_tile with the whole
\* image of that address. For every successful fetch the network thread made
\* of an address D, the Loaded outcome of D is either still waiting on res_rx
\* or was put under D after a Loading outcome had been put under D: at that put
\* the entry of D held the exact image.
C22_ExactSupersedes ==
    /\ \A p \in hist.puts :
         IF p.load.kind = "Loading"
         THEN /\ p.key = p.load.target_tile
              /\ p.key # p.load.source_tile
              /\ p.load.texture.img = get_file_path(p.load.source_tile)
         ELSE /\ p.key = p.load.source_tile
              /\ p.load.texture = FullImage(get_file_path(p.key))
    /\ \A i \in 1..Len(hist.netLog) :
         hist.netLog[i].ok =>
            \/ \E j \in 1..Len(res_q) : res_q[j] = ExactOutcome(hist.netLog[i].tile)
            \/ \E pa \in PutsOf(hist.netLog[i].tile, "Loading"),
                   pe \in PutsOf(hist.netLog[i].tile, "Loaded") : pa.tex < pe.tex

\* C22 witness: an approximation of an address was put, the network thread
\* fetched the address, and the texture cache now holds the exact image put
\* after the approximation.
C22_Witness ==
    \E i \in 1..Len(hist.netLog) :
        /\ hist.netLog[i].ok
        /\ \E pa \in PutsOf(hist.netLog[i].tile, "Loading"),
               pe \in PutsOf(hist.netLog[i].tile, "Loaded") :
             /\ pa.tex < pe.tex
             /\ LruHas(tile_cache, hist.netLog[i].tile)
             /\ LruValue(tile_cache, hist.netLog[i].tile) = pe.tex

\* The entries of an LRU as a set of [k, v].
LruEntries(c) == {c[i] : i \in 1..Len(c)}

\* The place of k in a sequence that holds it.
PlaceIn(order, k) == CHOOSE i \in 1..Len(order) : order[i] = k

\* The entry of c whose address was used longest ago according to order.
LeastRecent(c, order) ==
    CHOOSE e \in LruEntries(c) :
        \A f \in LruEntries(c) : PlaceIn(order, f.k) <= PlaceIn(order, e.k)

\* Worker w executes the statement at this position in this step.
WorkerLeaves(w, at) == wpc[w] = at /\ wpc'[w] # at

\* C23: in-flight table bound. The table never holds more than its capacity.
\* The put of an address that is not in the full table removes exactly the
\* entry used longest ago and keeps every other entry with its state; the put
\* changes no channel, not the network thread's buffer, not the disk, not the
\* texture cache and no other worker. A request whose address is not in the
\* table takes the None arm, whether or not the address was in the table
\* before.
C23_InflightBound ==
    /\ [](Len(tile_cache_buf) <= InflightCap)
    /\ [][\A w \in Workers :
            /\ (WorkerLeaves(w, "put0") /\ ~LruHas(tile_cache_buf, wtile[w]))
                 => /\ LruEntries(tile_cache_buf') =
                         (IF Len(tile_cache_buf) = InflightCap
                          THEN LruEntries(tile_cache_buf)
                                 \ {LeastRecent(tile_cache_buf, hist.bufUse)}
                          ELSE LruEntries(tile_cache_buf))
                         \cup {[k |-> wtile[w], v |-> 0]}
                    /\ UNCHANGED <<job_q, res_q, server_q, buffer, disk, tile_cache,
                                   fetchCalls, job_lock>>
                    /\ \A o \in Workers \ {w} :
                         wpc'[o] = wpc[o] /\ wcall'[o] = wcall[o] /\ wtile'[o] = wtile[o]
                    /\ wpc'[w] = "fetch" /\ wcall'[w] = FetchTileEnter(wtile[w])
            /\ (WorkerLeaves(w, "lookup") /\ ~LruHas(tile_cache_buf, wtile[w]))
                 => wpc'[w] = "put0" /\ tile_cache_buf' = tile_cache_buf
      ]_vars

\* C23 witness: a worker processes, in the None arm, an address whose entry was
\* evicted while the network request made for it the first time is still
\* waiting in the network thread's buffer.
C23_Witness ==
    \E w \in Workers :
        /\ wpc[w] = "put0"
        /\ wtile[w] \in hist.evicted
        /\ Len(tile_cache_buf) = InflightCap
        /\ \E i \in 1..Len(buffer) : buffer[i].tile = wtile[w]

\* The seq numbers of the requests in a sequence; seq is the order of the sends
\* on server_tx, which is the order of arrival.
SeqsOf(q) == {q[i].seq : i \in 1..Len(q)}

\* C24: network buffer bound. The buffer never holds more than its capacity.
\* A request that arrives when the buffer is full is kept and the request that
\* arrived first among the pending ones is removed; otherwise the arriving
\* request is added and none is removed. A removed request is never fetched by
\* the network thread.
C24_NetBufferBound ==
    /\ [](/\ Len(buffer) <= NetBufCap
          /\ \A i \in 1..Len(hist.netLog) : hist.netLog[i].seq \notin hist.dropped
          /\ SeqsOf(buffer) \cap hist.dropped = {})
    /\ [][Len(server_q') < Len(server_q)
            => IF Len(buffer) = NetBufCap
               THEN /\ SeqsOf(buffer') =
                         (SeqsOf(buffer) \ {SetMin(SeqsOf(buffer))})
                           \cup {Head(server_q).seq}
                    /\ hist'.dropped = hist.dropped \cup {SetMin(SeqsOf(buffer))}
               ELSE /\ SeqsOf(buffer') = SeqsOf(buffer) \cup {Head(server_q).seq}
                    /\ hist'.dropped = hist.dropped
      ]_vars

\* C24 witness: a request was removed from the full buffer and a request that
\* arrived after it was fetched.
C24_Witness ==
    \E d \in hist.dropped, i \in 1..Len(hist.netLog) :
        /\ hist.netLog[i].seq > d + 1
        /\ Cardinality(hist.netLog[i].pending) = NetBufCap - 1

\* The answers the claim lists as failures: transport error, status other
\* than 200, fewer than 4 bytes, neither PNG nor JPEG magic.
FailedAnswers == {"transport_error", "http_error", "too_small", "bad_magic"}

\* This step is a call of fetch_tile_from_server that returns Err.
FetchStepFails ==
    /\ fetchCalls' # fetchCalls
    /\ IF Len(hist'.netLog) > Len(hist.netLog)
       THEN ~hist'.netLog[Len(hist'.netLog)].ok
       ELSE \A e \in hist'.inline \ hist.inline : ~e.ok

\* C25: a failed network fetch changes nothing. On every disk reached, for
\* every address, fetch_tile_from_server returns Err and leaves every file as
\* it is when the answer is a transport error, a status other than 200, fewer
\* than 4 bytes or bytes with neither magic; and a step in which the call
\* returns Err, in the network thread or in a worker, writes no file, sends
\* nothing on res_tx and leaves the texture cache as it is.
C25_FailedFetchNoEffect ==
    /\ [](\A t \in PipeTiles, net \in FailedAnswers :
            /\ ~ServerFetch(t, net, disk).ok
            /\ ServerFetch(t, net, disk).disk = disk)
    /\ [][FetchStepFails
            => /\ disk' = disk
               /\ res_q' = res_q
               /\ hist'.sent = hist.sent
               /\ tile_cache' = tile_cache /\ nextTex' = nextTex
      ]_vars

\* C25 witness: the network thread's fetch of an address failed; its file is
\* absent and no Loaded outcome of it was ever sent.
C25_Witness ==
    \E i \in 1..Len(hist.netLog) :
        /\ ~hist.netLog[i].ok
        /\ disk[get_file_path(hist.netLog[i].tile)] = "absent"
        /\ [kind |-> "Loaded", tile |-> hist.netLog[i].tile] \notin hist.sent
        /\ res_q = <<>>

\* The exact tile of a was fetched by the network thread and delivered to the
\* texture cache.
Delivered(a) ==
    /\ \E i \in 1..Len(hist.netLog) : hist.netLog[i].ok /\ hist.netLog[i].tile = a
    /\ PutsOf(a, "Loaded") # {}

\* Worker w executes a statement in this step.
WorkerSteps(w) == wpc[w] \in {"lookup", "put0", "fetch"} /\ wpc'[w] # wpc[w]

\* C30: the in-flight table is modified only by worker threads. Every step
\* that changes the table is a step of a worker at its lookup or at one of its
\* puts; the network thread's steps and the frames leave it as it is. An entry
\* in state 1 whose exact tile was fetched and delivered is still in state 1
\* after every step, unless a worker's put of another address evicted it or a
\* worker processing that address put it again.
C30_InflightOnlyWorkers ==
    [][/\ tile_cache_buf' # tile_cache_buf => \E w \in Workers : WorkerSteps(w)
       /\ \A a \in PipeTiles :
            (LruHas(tile_cache_buf, a) /\ LruValue(tile_cache_buf, a) = 1 /\ Delivered(a))
            => \/ LruHas(tile_cache_buf', a) /\ LruValue(tile_cache_buf', a) = 1
               \/ \E w \in Workers :
                    /\ WorkerLeaves(w, "put0") /\ wtile[w] # a
                    /\ Len(tile_cache_buf) = InflightCap
                    /\ ~LruHas(tile_cache_buf', a)
               \/ \E w \in Workers :
                    /\ wtile[w] = a /\ wpc[w] \in {"put0", "fetch"} /\ wpc'[w] # wpc[w]
      ]_vars

\* C30 witness: the exact tile of an address was fetched and put in the
\* texture cache, where it still is, nothing is pending anywhere, and the
\* address is still in the in-flight table in state 1.
C30_Witness ==
    \E a \in PipeTiles :
        /\ Delivered(a)
        /\ LruHas(tile_cache, a)
        /\ \E pe \in PutsOf(a, "Loaded") : LruValue(tile_cache, a) = pe.tex
        /\ LruHas(tile_cache_buf, a) /\ LruValue(tile_cache_buf, a) = 1
        /\ res_q = <<>> /\ server_q = <<>> /\ buffer = <<>> /\ job_q = <<>>
        /\ \A w \in Workers : wpc[w] = "idle"

\* C31: one processing of a request by a worker sends its approximation on
\* res_tx before it sends the address on server_tx, and the render thread
\* receives that approximation before the exact image of the network fetch
\* which that processing enqueued. Outcomes are paired with the server request
\* of their processing by its seq.
ReceivedAs(n, kind) == {p \in hist.puts : p.req = n /\ p.load.kind = kind}

PendingAs(n, kind) ==
    {j \in 1..Len(res_q) : hist.resTags[j] = n /\ res_q[j].kind = kind}

C31_ApproxBeforeExact ==
    /\ Len(hist.resTags) = Len(res_q)
    /\ \A w \in Workers :
          wpc[w] = "send_server" =>
              ReceivedAs(enqSeq + 1, "Loading") \cup PendingAs(enqSeq + 1, "Loading") # {}
    /\ \A n \in 1..enqSeq :
          /\ ReceivedAs(n, "Loading") \cup PendingAs(n, "Loading") # {}
          /\ \A pe \in ReceivedAs(n, "Loaded") :
                \E pa \in ReceivedAs(n, "Loading") :
                    /\ pa.tex < pe.tex
                    /\ pa.load.target_tile = pe.load.source_tile
          /\ \A j \in PendingAs(n, "Loaded") :
                \/ \E pa \in ReceivedAs(n, "Loading") :
                      pa.load.target_tile = res_q[j].source_tile
                \/ \E i \in PendingAs(n, "Loading") :
                      i < j /\ res_q[i].target_tile = res_q[j].source_tile

\* Two processings of one address have each had both outcomes received.
C31_Witness ==
    \E n, m \in 1..enqSeq :
        /\ n < m
        /\ \E pn \in ReceivedAs(n, "Loaded"), pm \in ReceivedAs(m, "Loaded") :
              pn.key = pm.key
        /\ ReceivedAs(n, "Loading") # {} /\ ReceivedAs(m, "Loading") # {}

\* C32: once the exact image of an address has been put in the texture cache,
\* no put on that address, made while the entry is still cached, replaces it
\* by an approximation cut from an ancestor.
TexturesOf(kind) == {p.tex : p \in {q \in hist.puts : q.load.kind = kind}}

C32_ExactNotReplaced ==
    \A r \in hist.replaced :
        ~(r.old \in TexturesOf("Loaded") /\ r.new \in TexturesOf("Loading"))

====
